---- MODULE Spec2Model ----
(***************************************************************************)
(* AES S-box generator (sboxgenerator.py): GF(2^8) arithmetic, the         *)
(* multiplicative inverse, the affine transformation, the table built      *)
(* from them and the brute-force non-linearity search.                     *)
(*                                                                         *)
(* Python lists are indexed from 0; the tables below are functions on      *)
(* 0..255, so sbox[i] here is sbox[i] there.                               *)
(***************************************************************************)
EXTENDS Integers, Sequences, FiniteSets, TLC

VARIABLES
    \* the main program (if __name__ == "__main__")
    pc,          \* where the main program stands
    sbox,        \* the list generate_sbox fills, later aes_sbox
    i,           \* generate_sbox's loop index
    row,         \* print_sbox's row
    v,           \* calculate_non_linearity's output mask
    u,           \* calculate_non_linearity's input mask
    max_bias,    \* calculate_non_linearity's running maximum
    nl_arg,      \* the list as it was handed to calculate_non_linearity
    nl_score,    \* the value calculate_non_linearity returned (-1: none yet)
    console,     \* what was printed: one entry per line, tagged by function
    \* one call of a field operation on drawn operands
    fop,         \* the operation called
    fa, fb,      \* its operands
    fres,        \* what it returned (-1: not called yet)
    \* generate_sbox run with one constant of the code changed
    variant,     \* which constant of the code is changed, and how
    vsbox,       \* the list that run of generate_sbox fills
    vi,          \* its loop index
    \* the mask pairs of calculate_non_linearity visited in any order
    otable,      \* which table is analysed
    visited,     \* the pairs (u, v) visited so far
    partial,     \* each worker's own maximum
    oscore       \* the score after the reduction (-1: none yet)

mainVars    == <<pc, sbox, i, row, v, u, max_bias, nl_arg, nl_score, console>>
fieldVars   == <<fop, fa, fb, fres>>
variantVars == <<variant, vsbox, vi>>
orderVars   == <<otable, visited, partial, oscore>>
vars        == <<mainVars, fieldVars, variantVars, orderVars>>

Byte == 0..255

(***************************************************************************)
(* Python's integer operators on non-negative integers.                    *)
(***************************************************************************)
ShiftLeft(x, k)  == x * (2 ^ k)
ShiftRight(x, k) == x \div (2 ^ k)
Bit(x, k)        == (x \div (2 ^ k)) % 2

RECURSIVE BitXor(_, _)
BitXor(x, y) ==
    IF x = 0 THEN y
    ELSE IF y = 0 THEN x
    ELSE ((x + y) % 2) + 2 * BitXor(x \div 2, y \div 2)

RECURSIVE BitAnd(_, _)
BitAnd(x, y) ==
    IF x = 0 \/ y = 0 THEN 0
    ELSE ((x % 2) * (y % 2)) + 2 * BitAnd(x \div 2, y \div 2)

\* TLC evaluates a function expression anew at each application; comparing the
\* function makes TLC tabulate it once.
Stored(f) == IF f = f THEN f ELSE f

\* x ^ y and x & y, looked up for bytes (the values are those of BitXor, BitAnd)
XorTable == Stored([x \in Byte |-> [y \in Byte |-> BitXor(x, y)]])
AndTable == Stored([x \in Byte |-> [y \in Byte |-> BitAnd(x, y)]])
Xor(x, y) == IF x \in Byte /\ y \in Byte THEN XorTable[x][y] ELSE BitXor(x, y)
And(x, y) == IF x \in Byte /\ y \in Byte THEN AndTable[x][y] ELSE BitAnd(x, y)

Abs(n) == IF n < 0 THEN -n ELSE n

(***************************************************************************)
(* PART 1: GF(2^8) arithmetic.                                             *)
(***************************************************************************)
AES_MODULUS == 283

gf_add(x, y) == Xor(x, y)

\* the constant gf_mult XORs in when the bit shifted out was set (0x1B)
\* (mutant: 0x1D, the low byte of another degree-8 polynomial)
REDUCTION_other_polynomial == 16 + 13
REDUCTION == 27

\* range(8) of gf_mult (mutant: range(7))
MULT_ROUNDS_short == 8 - 1
MULT_ROUNDS == 8

\* gf_mult's loop with n passes left, over its locals a, b, p; red is the
\* reduction constant.  On non-negative integers b & 1 is b % 2, a & 0x80 is
\* bit 7 of a in place, and (a << 1) & 0xFF is a * 2 modulo 256.
\* (mutant: the reduction step "if hi_bit_set: a = a ^ 0x1B" left out)
RECURSIVE gf_mult_loop_unreduced(_, _, _, _, _)
gf_mult_loop_unreduced(a, b, p, n, red) ==
    IF n = 0 THEN p
    ELSE LET p1 == IF b % 2 = 1 THEN Xor(p, a) ELSE p
             a1 == ShiftLeft(a, 1) % 256
         IN  gf_mult_loop_unreduced(a1, ShiftRight(b, 1), p1, n - 1, red)

RECURSIVE gf_mult_loop(_, _, _, _, _)
gf_mult_loop(a, b, p, n, red) ==
    IF n = 0 THEN p
    ELSE LET p1         == IF b % 2 = 1 THEN Xor(p, a) ELSE p
             hi_bit_set == Bit(a, 7) * 128
             a1         == ShiftLeft(a, 1) % 256
             a2         == IF hi_bit_set # 0 THEN Xor(a1, red) ELSE a1
         IN  gf_mult_loop(a2, ShiftRight(b, 1), p1, n - 1, red)

gf_mult_red(x, y, red) == gf_mult_loop(x, y, 0, MULT_ROUNDS, red)

gf_mult(x, y) == gf_mult_red(x, y, REDUCTION)

(***************************************************************************)
(* PART 2: multiplicative inverses.                                        *)
(***************************************************************************)
\* range(254) of gf_inverse (mutant: range(253))
INVERSE_ROUNDS_short == 254 - 1
INVERSE_ROUNDS == 254

\* result = gf_mult(result, a), n times in a row.  The n multiplications are
\* done in the code's order; the recursion halves n, and tests the value of
\* the first half before going on, only to keep TLC's evaluation stack shallow
\* (the test is true of every integer).
RECURSIVE repeat_mult(_, _, _, _)
repeat_mult(result, x, n, red) ==
    IF n = 0 THEN result
    ELSE IF n = 1 THEN gf_mult_red(result, x, red)
    ELSE LET half == repeat_mult(result, x, n \div 2, red)
         IN  IF half \in Int THEN repeat_mult(half, x, n - (n \div 2), red) ELSE half

gf_inverse_red(x, red) ==
    IF x = 0 THEN 0 ELSE repeat_mult(1, x, INVERSE_ROUNDS, red)

gf_inverse(x) == gf_inverse_red(x, REDUCTION)

(***************************************************************************)
(* PART 3: the affine transformation.                                      *)
(***************************************************************************)
\* c = 0x63 (mutant: 0x36, the digits swapped)
AFFINE_CONSTANT_swapped == 3 * 16 + 6
AFFINE_CONSTANT == 99

\* the input bit positions XORed into output bit k: the rows of the AES matrix
\* (mutants: the last XOR line left out; (i + 3) written for (i + 4))
AFFINE_ROWS_one_short ==
    [k \in 0..7 |-> {k, (k + 4) % 8, (k + 5) % 8, (k + 6) % 8}]
AFFINE_ROWS_wrong_offset ==
    [k \in 0..7 |-> {k, (k + 3) % 8, (k + 5) % 8, (k + 6) % 8, (k + 7) % 8}]
AFFINE_ROWS ==
    [k \in 0..7 |-> {k, (k + 4) % 8, (k + 5) % 8, (k + 6) % 8, (k + 7) % 8}]

\* the loop of affine_transform from bit k on, with constant c and matrix rows
RECURSIVE affine_loop(_, _, _, _, _)
affine_loop(b, c, rows, k, new_b) ==
    IF k = 8 THEN new_b
    ELSE LET bit == (Cardinality({j \in rows[k] : Bit(b, j) = 1}) + Bit(c, k)) % 2
         IN  affine_loop(b, c, rows, k + 1, new_b + ShiftLeft(bit, k))

affine_with(byte_val, c, rows) == affine_loop(byte_val, c, rows, 0, 0)

affine_transform(byte_val) == affine_with(byte_val, AFFINE_CONSTANT, AFFINE_ROWS)

(***************************************************************************)
(* PART 4: the S-box table.                                                *)
(***************************************************************************)
\* the body of generate_sbox's loop: the entry stored at index idx
sbox_entry(idx) == affine_transform(gf_inverse(idx))


\* sbox = [0] * 256
empty_sbox == [k \in Byte |-> 0]

\* gf_inverse and the table generate_sbox returns, each computed once
inverse_table  == Stored([k \in Byte |-> gf_inverse(k)])
standard_table == Stored([k \in Byte |-> affine_transform(inverse_table[k])])

\* gf_inverse under the reduction constant red: looked up when red is the
\* code's own
inverse_under(idx, red) ==
    IF red = REDUCTION THEN inverse_table[idx] ELSE gf_inverse_red(idx, red)

\* the body of generate_sbox's loop with the constants of one variant of the
\* code
sbox_entry_with(idx, c, rows, red) == affine_with(inverse_under(idx, red), c, rows)

(***************************************************************************)
(* PART 5: non-linearity.                                                  *)
(***************************************************************************)
RECURSIVE PopCount(_)
PopCount(x) == IF x = 0 THEN 0 ELSE (x % 2) + PopCount(x \div 2)

parity_table == Stored([x \in Byte |-> PopCount(x) % 2])

\* range(1, 256): the first mask and the bound of both mask loops
\* (mutant: range(256), which starts at the zero mask)
FIRST_MASK_zero == 1 - 1
FIRST_MASK == 1
MASK_END   == 256

\* the inner loop over x: how many inputs satisfy the approximation (um, vm)
matches_of(tbl, um, vm) ==
    Cardinality({x \in Byte : parity_table[And(um, x)] = parity_table[And(vm, tbl[x])]})

bias_of(m) == Abs(m - 128)

\* if bias > max_bias: max_bias = bias
\* (mutant: the assignment without its test)
update_max_unguarded(mb, bs) == bs
update_max(mb, bs) == IF bs > mb THEN bs ELSE mb

\* the body of the two mask loops for one pair
visit_pair(tbl, um, vm, mb) == update_max(mb, bias_of(matches_of(tbl, um, vm)))

\* return 128 - max_bias
score_of(mb) == 128 - mb

(***************************************************************************)
(* The main program: generate, print, verify, experiment, report.          *)
(***************************************************************************)
\* the functions of the algorithmic core; print_sbox and the main block are
\* the presentation around it
CoreOps ==
    {"gf_add", "gf_mult", "gf_inverse", "affine_transform", "generate_sbox",
     "calculate_non_linearity"}

\* one printed line, tagged with the function whose print call wrote it
Printed(by, n) == [k \in 1..n |-> by]

FieldIdle   == fop = "none" /\ fa = 0 /\ fb = 0 /\ fres = -1
VariantIdle == variant = [kind |-> "none"] /\ vsbox = <<>> /\ vi = 0
OrderIdle   == otable = "none" /\ visited = {} /\ partial = <<>> /\ oscore = -1

MainInit ==
    /\ pc = "generate_sbox"
    /\ sbox = empty_sbox
    /\ i = 0
    /\ row = 0
    /\ v = 0
    /\ u = 0
    /\ max_bias = 0
    /\ nl_arg = <<>>
    /\ nl_score = -1
    /\ console = <<>>

\* generate_sbox: one pass of "for i in range(256)"
GenerateStep ==
    /\ pc = "generate_sbox"
    /\ i < 256
    /\ sbox' = [sbox EXCEPT ![i] = sbox_entry(i)]
    /\ i' = i + 1
    /\ UNCHANGED <<pc, row, v, u, max_bias, nl_arg, nl_score, console>>
    /\ UNCHANGED <<fieldVars, variantVars, orderVars>>

\* generate_sbox returns; print_sbox prints its three heading lines
GenerateReturn ==
    /\ pc = "generate_sbox"
    /\ i = 256
    /\ pc' = "print_sbox"
    /\ row' = 0
    /\ console' = console \o Printed("print_sbox", 3)
    /\ UNCHANGED <<sbox, i, v, u, max_bias, nl_arg, nl_score>>
    /\ UNCHANGED <<fieldVars, variantVars, orderVars>>

\* print_sbox: one pass of "for row in range(16)", one line of the grid
PrintRow ==
    /\ pc = "print_sbox"
    /\ row < 16
    /\ row' = row + 1
    /\ console' = console \o Printed("print_sbox", 1)
    /\ UNCHANGED <<pc, sbox, i, v, u, max_bias, nl_arg, nl_score>>
    /\ UNCHANGED <<fieldVars, variantVars, orderVars>>

\* the spot check of the main block: three lines
Verify ==
    /\ pc = "print_sbox"
    /\ row = 16
    /\ pc' = "experiment"
    /\ console' = console \o Printed("__main__", 3)
    /\ UNCHANGED <<sbox, i, row, v, u, max_bias, nl_arg, nl_score>>
    /\ UNCHANGED <<fieldVars, variantVars, orderVars>>

\* calculate_non_linearity(aes_sbox) is entered: its print, max_bias = 0, the
\* parity table, and both loops at their first mask
NLEnter ==
    /\ pc = "experiment"
    /\ pc' = "calculate_non_linearity"
    /\ nl_arg' = sbox
    /\ console' = console \o Printed("calculate_non_linearity", 1)
    /\ max_bias' = 0
    /\ v' = FIRST_MASK
    /\ u' = FIRST_MASK
    /\ UNCHANGED <<sbox, i, row, nl_score>>
    /\ UNCHANGED <<fieldVars, variantVars, orderVars>>

\* one pair (u, v) of the two mask loops, v outer and u inner
NLStep ==
    /\ pc = "calculate_non_linearity"
    /\ v < MASK_END
    /\ max_bias' = visit_pair(sbox, u, v, max_bias)
    /\ IF u + 1 < MASK_END
       THEN u' = u + 1 /\ v' = v
       ELSE u' = FIRST_MASK /\ v' = v + 1
    /\ UNCHANGED <<pc, sbox, i, row, nl_arg, nl_score, console>>
    /\ UNCHANGED <<fieldVars, variantVars, orderVars>>

\* return 128 - max_bias
NLReturn ==
    /\ pc = "calculate_non_linearity"
    /\ v >= MASK_END
    /\ nl_score' = score_of(max_bias)
    /\ pc' = "results"
    /\ UNCHANGED <<sbox, i, row, v, u, max_bias, nl_arg, console>>
    /\ UNCHANGED <<fieldVars, variantVars, orderVars>>

\* the main block prints the score and its verdict
Report ==
    /\ pc = "results"
    /\ pc' = "done"
    /\ console' = console \o Printed("__main__", 3)
    /\ UNCHANGED <<sbox, i, row, v, u, max_bias, nl_arg, nl_score>>
    /\ UNCHANGED <<fieldVars, variantVars, orderVars>>

MainNext ==
    \/ GenerateStep
    \/ GenerateReturn
    \/ PrintRow
    \/ Verify
    \/ NLEnter
    \/ NLStep
    \/ NLReturn
    \/ Report

Init == MainInit /\ FieldIdle /\ VariantIdle /\ OrderIdle
Next == MainNext
Spec == Init /\ [][Next]_vars

(***************************************************************************)
(* The field operations called once on drawn operands.                     *)
(***************************************************************************)
FieldInit ==
    /\ fop \in {"gf_mult", "gf_inverse"}
    /\ fa \in Byte
    /\ fb \in IF fop = "gf_mult" THEN Byte ELSE {0}
    /\ fres = -1

CallMult ==
    /\ fop = "gf_mult"
    /\ fres = -1
    /\ fres' = gf_mult(fa, fb)
    /\ UNCHANGED <<fop, fa, fb>>
    /\ UNCHANGED <<mainVars, variantVars, orderVars>>

CallInverse ==
    /\ fop = "gf_inverse"
    /\ fres = -1
    /\ fres' = gf_inverse(fa)
    /\ UNCHANGED <<fop, fa, fb>>
    /\ UNCHANGED <<mainVars, variantVars, orderVars>>

MainIdle ==
    /\ pc = "idle" /\ sbox = <<>> /\ i = 0 /\ row = 0 /\ v = 0 /\ u = 0
    /\ max_bias = 0 /\ nl_arg = <<>> /\ nl_score = -1 /\ console = <<>>

FieldSpecInit == MainIdle /\ FieldInit /\ VariantIdle /\ OrderIdle
FieldNext ==
    \/ CallMult
    \/ CallInverse
FieldSpec == FieldSpecInit /\ [][FieldNext]_vars

(***************************************************************************)
(* generate_sbox with one constant of the code changed: the affine         *)
(* constant set to 0, one entry of the affine matrix flipped, or one bit   *)
(* of the reduction constant flipped.                                      *)
(***************************************************************************)
VariantChoices ==
    {[kind |-> "standard", bitrow |-> 0, bitcol |-> 0],
     [kind |-> "constant", bitrow |-> 0, bitcol |-> 0]}
    \cup {[kind |-> "matrix", bitrow |-> r, bitcol |-> c] : r \in 0..7, c \in 0..7}
    \cup {[kind |-> "modulus", bitrow |-> 0, bitcol |-> c] : c \in 0..7}

variant_constant(w) == IF w.kind = "constant" THEN 0 ELSE AFFINE_CONSTANT

\* input bit bitcol is added to, or removed from, the XOR of output bit bitrow
variant_rows(w) ==
    IF w.kind = "matrix"
    THEN [AFFINE_ROWS EXCEPT ![w.bitrow] =
            IF w.bitcol \in @ THEN @ \ {w.bitcol} ELSE @ \cup {w.bitcol}]
    ELSE AFFINE_ROWS

variant_reduction(w) ==
    IF w.kind = "modulus" THEN Xor(REDUCTION, 2 ^ w.bitcol) ELSE REDUCTION

\* the change, and the three constants of the code as that run has them
variant_of(w) ==
    [kind |-> w.kind, bitrow |-> w.bitrow, bitcol |-> w.bitcol,
     c |-> variant_constant(w), rows |-> variant_rows(w), red |-> variant_reduction(w)]

VariantInit ==
    /\ variant \in {variant_of(w) : w \in VariantChoices}
    /\ vsbox = empty_sbox
    /\ vi = 0

\* generate_sbox: one pass of "for i in range(256)" with the variant's constants
VGenerateStep ==
    /\ vi < 256
    /\ vsbox' = [vsbox EXCEPT ![vi] =
                    sbox_entry_with(vi, variant.c, variant.rows, variant.red)]
    /\ vi' = vi + 1
    /\ UNCHANGED variant
    /\ UNCHANGED <<mainVars, fieldVars, orderVars>>

VariantSpecInit == MainIdle /\ FieldIdle /\ VariantInit /\ OrderIdle
VariantNext == VGenerateStep
VariantSpec == VariantSpecInit /\ [][VariantNext]_vars

(***************************************************************************)
(* The mask pairs of calculate_non_linearity visited in any order by       *)
(* workers that each keep their own maximum, on a window of masks.         *)
(***************************************************************************)
MaxU       == 3
MaxV       == 2
NumWorkers == 2

Workers     == 1..NumWorkers
WindowPairs == (FIRST_MASK..MaxU) \X (FIRST_MASK..MaxV)

\* the tables analysed: the generated S-box, the inverses alone, the identity
identity_table == [k \in Byte |-> k]
OrderTables    == {"aes", "inverse", "identity"}
order_table(name) ==
    CASE name = "aes"      -> standard_table
      [] name = "inverse"  -> inverse_table
      [] name = "identity" -> identity_table

\* the bias of each pair of the window, computed once per table
window_bias ==
    Stored([name \in OrderTables |-> [pr \in WindowPairs |->
                bias_of(matches_of(order_table(name), pr[1], pr[2]))]])

OrderInit ==
    /\ otable \in OrderTables
    /\ visited = {}
    /\ partial = [w \in Workers |-> 0]
    /\ oscore = -1

\* worker w takes a pair no worker has taken and runs the loop body on it
OVisit(w, pr) ==
    /\ oscore = -1
    /\ pr \notin visited
    /\ visited' = visited \cup {pr}
    /\ partial' = [partial EXCEPT ![w] = update_max(@, window_bias[otable][pr])]
    /\ UNCHANGED <<otable, oscore>>
    /\ UNCHANGED <<mainVars, fieldVars, variantVars>>

\* the partial maxima merged, worker by worker, with the loop's own update
RECURSIVE reduce_max(_, _, _)
reduce_max(part, w, mb) ==
    IF w > NumWorkers THEN mb ELSE reduce_max(part, w + 1, update_max(mb, part[w]))

OReduce ==
    /\ oscore = -1
    /\ visited = WindowPairs
    /\ oscore' = score_of(reduce_max(partial, 1, 0))
    /\ UNCHANGED <<otable, visited, partial>>
    /\ UNCHANGED <<mainVars, fieldVars, variantVars>>

\* the code's own traversal of the window: v outer, u inner
RECURSIVE sequential_loop(_, _, _, _)
sequential_loop(tbl, vm, um, mb) ==
    IF vm > MaxV THEN mb
    ELSE IF um > MaxU THEN sequential_loop(tbl, vm + 1, FIRST_MASK, mb)
    ELSE sequential_loop(tbl, vm, um + 1, visit_pair(tbl, um, vm, mb))

sequential_score(tbl) == score_of(sequential_loop(tbl, FIRST_MASK, FIRST_MASK, 0))

OrderSpecInit == MainIdle /\ FieldIdle /\ VariantIdle /\ OrderInit
OrderNext ==
    \/ \E w \in Workers, pr \in WindowPairs : OVisit(w, pr)
    \/ OReduce
OrderSpec == OrderSpecInit /\ [][OrderNext]_vars

(***************************************************************************)
(* Properties.                                                             *)
(***************************************************************************)
\* every value of [0,255] appears exactly once in a list of 256 entries
IsPermutation(tbl) ==
    /\ DOMAIN tbl = Byte
    /\ \A val \in Byte : Cardinality({k \in Byte : tbl[k] = val}) = 1

\* gf_mult, each product computed once
mult_table == Stored([x \in Byte |-> [y \in Byte |-> gf_mult(x, y)]])

\* the product of two polynomials over GF(2), without reduction
RECURSIVE ClMul(_, _)
ClMul(x, y) ==
    IF y = 0 THEN 0
    ELSE BitXor(IF y % 2 = 1 THEN x ELSE 0, 2 * ClMul(x, y \div 2))

\* x reduced modulo the polynomial m of degree 8, from bit k down
RECURSIVE PolyModFrom(_, _, _)
PolyModFrom(x, m, k) ==
    IF k < 8 THEN x
    ELSE PolyModFrom(IF Bit(x, k) = 1 THEN BitXor(x, ShiftLeft(m, k - 8)) ELSE x, m, k - 1)

PolyMod(x, m) == PolyModFrom(x, m, 14)

\* C1: gf_mult(a, gf_inverse(a)) = 1 for every a in [1,255], and
\* gf_inverse(0) = 0.
C1_InverseIsInverse ==
    (fop = "gf_inverse" /\ fres # -1) =>
        /\ fa # 0 => gf_mult(fa, fres) = 1
        /\ fa = 0 => fres = 0

C1_Witness == fop = "gf_inverse" /\ fa = 83 /\ fres = 202

\* C2: the table generate_sbox returns has exactly 256 entries and every value
\* of [0,255] appears in it exactly once.
C2_SboxIsPermutation ==
    pc = "print_sbox" => (Cardinality(DOMAIN sbox) = 256 /\ IsPermutation(sbox))

C2_Witness == pc = "print_sbox" /\ i = 256 /\ sbox[255] = 22

\* C3: the generated table has 0x63 at 0x00, 0x7C at 0x01 and 0xED at 0x53.
C3_ReferencePoints ==
    pc \notin {"generate_sbox", "idle"} =>
        (sbox[0] = 99 /\ sbox[1] = 124 /\ sbox[83] = 237)

C3_Witness == pc = "experiment" /\ sbox[83] = 237

\* C4: calculate_non_linearity(generate_sbox()) returns 112: the largest
\* |matches - 128| over the mask pairs is 16, never more while the search runs
\* and exactly 16 at its end.
C4_ScoreIs112 ==
    /\ pc = "calculate_non_linearity" => max_bias <= 16
    /\ pc \in {"results", "done"} => (max_bias = 16 /\ nl_score = 112)

C4_Witness == pc = "done" /\ nl_score = 112 /\ v = 256

\* C5: gf_mult(a, b) = gf_mult(b, a) for all a, b in [0,255].
C5_MultCommutes ==
    (fop = "gf_mult" /\ fres # -1) => fres = gf_mult(fb, fa)

C5_Witness == fop = "gf_mult" /\ fa = 2 /\ fb = 128 /\ fres = 27

\* C6: whatever the order in which the pairs are visited and however they are
\* shared among the workers, the reduced score is the score of the sequential
\* v-outer, u-inner loop.
C6_OrderIndependent ==
    oscore # -1 => oscore = sequential_score(order_table(otable))

C6_Witness ==
    /\ oscore # -1
    /\ otable = "aes"
    /\ partial[1] > 0
    /\ partial[2] > partial[1]

\* C7: with the affine constant 0x00 the table is still a permutation, and its
\* entries at 0 and 1 are not 0x63 and 0x7C.
C7_ZeroConstant ==
    (variant.kind = "constant" /\ vi = 256) =>
        /\ IsPermutation(vsbox)
        /\ vsbox[0] # 99
        /\ vsbox[1] # 124

C7_Witness == variant.kind = "constant" /\ vi = 256 /\ vsbox[0] = 0 /\ vsbox[1] = 31

\* C8: no function of the algorithmic core prints, and calculate_non_linearity
\* leaves the list it was handed as it was.
C8_CoreIsSideEffectFree ==
    /\ \A k \in 1..Len(console) : console[k] \notin CoreOps
    /\ pc \in {"calculate_non_linearity", "results", "done"} => sbox = nl_arg

\* C9: gf_mult(a, b) is a byte, is the polynomial product of a and b reduced
\* modulo 0x11B, and distributes over gf_add.
C9_MultIsFieldProduct ==
    (fop = "gf_mult" /\ fres # -1) =>
        /\ fres \in Byte
        /\ fres = PolyMod(ClMul(fa, fb), AES_MODULUS)
        /\ \A c \in Byte :
              mult_table[fa][gf_add(fb, c)] = gf_add(fres, mult_table[fa][c])

C9_Witness == fop = "gf_mult" /\ fa = 87 /\ fb = 131 /\ fres = 193

\* C10 as stated: every single flip of a matrix entry or of a bit of the
\* reduction constant gives a permutation that differs from the standard table.
C10_EveryFlipIsPermutation ==
    (variant.kind \in {"matrix", "modulus"} /\ vi = 256) =>
        (IsPermutation(vsbox) /\ vsbox # standard_table)

\* C10 as amended: every such flip gives a table that differs from the standard
\* one; a flip of matrix entry (row, column) gives a permutation unless
\* column - row is 1, 3 or 6 modulo 8; no flip of a bit of the reduction
\* constant gives a permutation.
C10_FlipsDifferButMayCollide ==
    vi = 256 =>
        /\ variant.kind = "matrix" =>
              /\ vsbox # standard_table
              /\ IsPermutation(vsbox) <=>
                    ((variant.bitcol - variant.bitrow + 8) % 8 \notin {1, 3, 6})
        /\ variant.kind = "modulus" =>
              /\ vsbox # standard_table
              /\ ~IsPermutation(vsbox)

C10_Witness ==
    /\ vi = 256
    /\ variant.kind = "matrix"
    /\ variant.bitrow = 0
    /\ variant.bitcol = 1
    /\ ~IsPermutation(vsbox)

====
